---- MODULE Spec2Model ----
(***************************************************************************)
(* Model of src/fibonacci.cpp: main() generates the Fibonacci numbers not  *)
(* exceeding `limit` into the vector `fibonacci`, then prints the last     *)
(* min(desiredCount, size) of them, newest first, on one line.             *)
(*                                                                         *)
(* The program fixes limit = 1000 and desiredCount = 15.  Spec lets the    *)
(* limit range over 1..MaxLimit (1000 included) so that statements made    *)
(* "for any limit >= 1" are checked on more than one run; PrintSpec starts *)
(* at the print phase with an arbitrary non-empty vector and an arbitrary  *)
(* desired count, to check the print phase as a function of its inputs.    *)
(***************************************************************************)
EXTENDS Integers, Sequences, FiniteSets, TLC

\* ------------------------------------------------------------------ bounds
\* Largest limit explored by Spec (the program's own limit, 1000, is below it).
MaxLimit == 1100
\* Longest vector handed to the print phase by PrintSpec.
MaxLen == 3
\* Largest desired count handed to the print phase by PrintSpec.
MaxDesired == 5

\* ------------------------------------------------------- program constants
\* const int limit = 1000;
FixedLimit == 1000
\* const std::size_t desiredCount = 15;
FixedDesiredCount == 15

\* A narrower integer type (int8_t) in place of int.
INT_MAX_Narrow == 2^7 - 1
\* Largest value of `int` (32 bits, two's complement).
INT_MAX == 2147483647
INT_MIN == (-INT_MAX) - 1

\* Limits explored by Spec.
Limits == (1..MaxLimit) \cup {FixedLimit}
\* Element values of the vectors PrintSpec hands to the print phase.
PrintVals == {-4, 0, 7, 13}

VARIABLES
    limit,          \* const int limit
    desiredCount,   \* const std::size_t desiredCount
    fibonacci,      \* std::vector<int> fibonacci
    previous,       \* int previous
    current,        \* int current
    next,           \* int next (value computed by the latest iteration; 0 before the first)
    count,          \* const std::size_t count (0 until line 23 has run)
    i,              \* std::size_t i of the print loop
    output,         \* characters written to std::cout so far
    returned,       \* <<>> while running, <<code>> once main has returned
    pc,             \* "loop", "count", "print", "done", or "ub" (undefined behaviour met)
    iterations,     \* history: number of executions of the while body so far
    skipIters,      \* history: the iterations (1-based) whose append was skipped
    reads           \* history: the indices (0-based) read from fibonacci by the print loop

vars == <<limit, desiredCount, fibonacci, previous, current, next, count, i,
          output, returned, pc, iterations, skipIters, reads>>

\* ------------------------------------------------------------ pure helpers
\* fibonacci.back()
Back(v) == v[Len(v)]

\* Guard of the generation loop, with a strict comparison.
LoopGuardStrict(cur, lim) == cur < lim
\* Guard of the generation loop, one past the limit.
LoopGuardOffByOne(cur, lim) == cur <= lim + 1
\* while (current <= limit)
LoopGuard(cur, lim) == cur <= lim

\* The append done unconditionally.
ShouldAppendAlways(v, cur) == TRUE
\* if (fibonacci.empty() || fibonacci.back() != current)
ShouldAppend(v, cur) == v = <<>> \/ Back(v) # cur

\* Insertion at the front instead of the back.
PushFront(v, x) == <<x>> \o v
\* fibonacci.push_back(current)
PushBack(v, x) == Append(v, x)

\* previous + current does not fit an int (tested without leaving the int range).
Overflows(a, b) ==
    \/ b > 0 /\ a > INT_MAX - b
    \/ b < 0 /\ a < INT_MIN - b

\* The two's complement result of an overflowing a + b.
WrapAdd(a, b) ==
    IF b > 0
    THEN ((a - INT_MAX) - 1) + ((b - INT_MAX) - 1)
    ELSE ((a + INT_MAX) + 1) + ((b + INT_MAX) + 1)

\* int next = previous + current: the sum when it fits; signed overflow is
\* undefined, and a build either wraps or traps.
AddOutcomes(a, b) ==
    IF Overflows(a, b)
    THEN {[trap |-> TRUE, val |-> 0], [trap |-> FALSE, val |-> WrapAdd(a, b)]}
    ELSE {[trap |-> FALSE, val |-> a + b]}

\* The desired count taken whatever the size.
MinCountIgnoringSize(a, b) == a
\* std::min(desiredCount, fibonacci.size())
MinCount(a, b) == IF b < a THEN b ELSE a

\* The index computed one too high.
IndexOfOffByOne(size, k) == size - k
\* std::size_t index = fibonacci.size() - 1 - i
IndexOf(size, k) == size - 1 - k

\* The separator written after every number.
NeedSeparatorAlways(k, cnt) == k < cnt
\* if (i + 1 < count)
NeedSeparator(k, cnt) == k + 1 < cnt

Digits == <<"0", "1", "2", "3", "4", "5", "6", "7", "8", "9">>

RECURSIVE NatToChars(_)
\* Decimal digits of a natural number, most significant first.
NatToChars(n) ==
    IF n < 10 THEN <<Digits[n + 1]>>
    ELSE NatToChars(n \div 10) \o <<Digits[(n % 10) + 1]>>

\* std::cout << int: decimal, with a leading '-' for a negative value.
IntToChars(n) == IF n < 0 THEN <<"-">> \o NatToChars(-n) ELSE NatToChars(n)

\* ------------------------------------------------------------------ states
\* State at line 12, before the first test of the loop guard.
Init ==
    /\ limit \in Limits
    /\ desiredCount = FixedDesiredCount
    /\ fibonacci = <<>>
    /\ previous = 0
    /\ current = 1
    /\ next = 0
    /\ count = 0
    /\ i = 0
    /\ output = <<>>
    /\ returned = <<>>
    /\ pc = "loop"
    /\ iterations = 0
    /\ skipIters = {}
    /\ reads = <<>>

\* Vectors handed to the print phase by PrintSpec.
PrintInputs == UNION {[1..n -> PrintVals] : n \in 1..MaxLen}

\* State at line 22 for an arbitrary non-empty vector and desired count.
InitPrint ==
    /\ limit = FixedLimit
    /\ desiredCount \in 1..MaxDesired
    /\ fibonacci \in PrintInputs
    /\ previous = 0
    /\ current = 1
    /\ next = 0
    /\ count = 0
    /\ i = 0
    /\ output = <<>>
    /\ returned = <<>>
    /\ pc = "count"
    /\ iterations = 0
    /\ skipIters = {}
    /\ reads = <<>>

\* ----------------------------------------------------------------- actions
\* One execution of the while body, lines 13-19.
LoopIter ==
    /\ pc = "loop"
    /\ LoopGuard(current, limit)
    /\ iterations' = iterations + 1
    /\ IF ShouldAppend(fibonacci, current)
       THEN /\ fibonacci' = PushBack(fibonacci, current)
            /\ skipIters' = skipIters
       ELSE /\ fibonacci' = fibonacci
            /\ skipIters' = skipIters \cup {iterations + 1}
    /\ \E r \in AddOutcomes(previous, current) :
          IF r.trap
          THEN /\ pc' = "ub"
               /\ UNCHANGED <<next, previous, current>>
          ELSE /\ next' = r.val
               /\ previous' = current
               /\ current' = r.val
               /\ pc' = "loop"
    /\ UNCHANGED <<limit, desiredCount, count, i, output, returned, reads>>

\* The loop guard fails: control leaves the while loop (line 12 to line 22).
LoopExit ==
    /\ pc = "loop"
    /\ ~LoopGuard(current, limit)
    /\ pc' = "count"
    /\ UNCHANGED <<limit, desiredCount, fibonacci, previous, current, next, count,
                   i, output, returned, iterations, skipIters, reads>>

\* Lines 22-25: count is computed and the print loop's i starts at 0.
ComputeCount ==
    /\ pc = "count"
    /\ count' = MinCount(desiredCount, Len(fibonacci))
    /\ i' = 0
    /\ pc' = "print"
    /\ UNCHANGED <<limit, desiredCount, fibonacci, previous, current, next,
                   output, returned, iterations, skipIters, reads>>

\* One execution of the for body, lines 26-30, and ++i.  An index outside the
\* vector is undefined behaviour.
PrintStep ==
    /\ pc = "print"
    /\ i < count
    /\ LET index == IndexOf(Len(fibonacci), i) IN
          IF index \in 0..(Len(fibonacci) - 1)
          THEN /\ reads' = Append(reads, index)
               /\ output' = output \o IntToChars(fibonacci[index + 1])
                                   \o (IF NeedSeparator(i, count) THEN <<" ">> ELSE <<>>)
               /\ i' = i + 1
               /\ pc' = "print"
          ELSE /\ pc' = "ub"
               /\ UNCHANGED <<reads, output, i>>
    /\ UNCHANGED <<limit, desiredCount, fibonacci, previous, current, next, count,
                   returned, iterations, skipIters>>

\* The for loop ends: lines 33-34, std::endl and return 0.
PrintEnd ==
    /\ pc = "print"
    /\ ~(i < count)
    /\ output' = Append(output, "\n")
    /\ returned' = <<0>>
    /\ pc' = "done"
    /\ UNCHANGED <<limit, desiredCount, fibonacci, previous, current, next, count,
                   i, iterations, skipIters, reads>>

Next == LoopIter \/ LoopExit \/ ComputeCount \/ PrintStep \/ PrintEnd

\* The whole program, for each limit of Limits.
Spec == Init /\ [][Next]_vars

\* The program never pauses: a single thread runs main to its end.
FairSpec == Spec /\ WF_vars(Next)

NextPrint == ComputeCount \/ PrintStep \/ PrintEnd

\* The print phase alone, on arbitrary inputs.
PrintSpec == InitPrint /\ [][NextPrint]_vars

\* ================================================================== claims
\* ---------------------------------------------------- helpers of the claims
\* a is a prefix of b.
IsPrefix(a, b) == Len(a) <= Len(b) /\ SubSeq(b, 1, Len(a)) = a

\* The smaller of two numbers, stated without the program's std::min.
Smaller(a, b) == CHOOSE m \in {a, b} : m <= a /\ m <= b

\* Value of a digit character.
DigitVal(c) == CHOOSE d \in 0..9 : Digits[d + 1] = c

RECURSIVE DigitsToNat(_, _)
\* Value of a sequence of digit characters, read left to right from acc.
DigitsToNat(cs, acc) ==
    IF cs = <<>> THEN acc ELSE DigitsToNat(Tail(cs), 10 * acc + DigitVal(Head(cs)))

\* Value of a decimal token with an optional leading '-'.
CharsToInt(tok) ==
    IF Head(tok) = "-" THEN -DigitsToNat(Tail(tok), 0) ELSE DigitsToNat(tok, 0)

RECURSIVE ParseNumbers(_, _, _)
\* The numbers written in cs, tokens being separated by ' ' or '\n'.
ParseNumbers(cs, acc, tok) ==
    LET closed == IF tok = <<>> THEN acc ELSE Append(acc, CharsToInt(tok)) IN
    IF cs = <<>> THEN closed
    ELSE IF Head(cs) \in {" ", "\n"} THEN ParseNumbers(Tail(cs), closed, <<>>)
    ELSE ParseNumbers(Tail(cs), acc, Append(tok, Head(cs)))

\* Number of characters of cs equal to c.
CountChar(cs, c) == Cardinality({k \in 1..Len(cs) : cs[k] = c})

\* Control is past the generation loop.
PastLoop == pc \in {"count", "print", "done"}

\* The line "987 610 377 233 144 89 55 34 21 13 8 5 3 2 1" and its newline.
ExpectedLine ==
    <<
       "9", "8", "7", " ", "6", "1", "0", " ", "3", "7", "7", " ", "2",
       "3", "3", " ", "1", "4", "4", " ", "8", "9", " ", "5", "5", " ",
       "3", "4", " ", "2", "1", " ", "1", "3", " ", "8", " ", "5", " ",
       "3", " ", "2", " ", "1", "\n"
    >>

\* The Fibonacci numbers up to 1000 with the second 1 left out.
ExpectedSequence == <<1, 2, 3, 5, 8, 13, 21, 34, 55, 89, 144, 233, 377, 610, 987>>

\* ------------------------------------------------------------------- C1
\* C1: with limit = 1000 and desiredCount = 15 the program writes nothing but
\* the line 987 610 377 233 144 89 55 34 21 13 8 5 3 2 1, single spaces
\* between the numbers, no trailing space, one newline at the end: what has
\* been written is always a prefix of that line, and is the whole line once
\* main has returned.
C1_FixedOutput ==
    (limit = FixedLimit /\ desiredCount = FixedDesiredCount) =>
        /\ IsPrefix(output, ExpectedLine)
        /\ pc = "done" => output = ExpectedLine

C1_Witness ==
    /\ limit = FixedLimit
    /\ desiredCount = FixedDesiredCount
    /\ pc = "done"
    /\ CountChar(output, "\n") = 1
    /\ CountChar(output, " ") = 14

\* ------------------------------------------------------------------- C2
\* C2 as stated: for limit = 1000, once the generation loop has finished the
\* stored sequence has 14 elements and the print phase takes count = 14.
C2_Original ==
    (limit = FixedLimit /\ PastLoop) =>
        /\ Len(fibonacci) = 14
        /\ pc \in {"print", "done"} => count = 14

\* C2 amended: for limit = 1000, once the generation loop has finished the
\* stored sequence is 1 2 3 5 ... 610 987, which has 15 elements (the
\* duplicate leading 1 being suppressed), and the print phase takes
\* count = min(15, 15) = 15.
C2_FifteenElements ==
    (limit = FixedLimit /\ PastLoop) =>
        /\ fibonacci = ExpectedSequence
        /\ Len(fibonacci) = 15
        /\ pc \in {"print", "done"} => count = 15

C2_Witness ==
    /\ limit = FixedLimit
    /\ pc = "print"
    /\ count = 15
    /\ i = 0

\* ------------------------------------------------------------------- C3
\* C3: in every reachable state, whatever the limit, every element stored
\* in the sequence is at most the limit.
C3_BoundInvariant ==
    \A k \in 1..Len(fibonacci) : fibonacci[k] <= limit

\* A run whose last element equals its limit.
C3_Witness ==
    /\ limit = 987
    /\ PastLoop
    /\ fibonacci # <<>>
    /\ Back(fibonacci) = limit

\* ------------------------------------------------------------------- C4
\* C4: in every reachable state, whatever the limit, no two adjacent
\* elements of the stored sequence are equal.
C4_NoConsecutiveDuplicates ==
    \A k \in 1..(Len(fibonacci) - 1) : fibonacci[k] # fibonacci[k + 1]

\* The guard has suppressed an append and the sequence has grown since.
C4_Witness ==
    /\ skipIters # {}
    /\ Len(fibonacci) >= 2
    /\ pc = "loop"

\* ------------------------------------------------------------------- C5
\* C5: in every reachable state, whatever the limit, the stored sequence is
\* strictly increasing after its first element: every element from the
\* second on is smaller than its successor.
C5_Ordering ==
    \A k \in 2..(Len(fibonacci) - 1) : fibonacci[k] < fibonacci[k + 1]

C5_Witness ==
    /\ Len(fibonacci) >= 4
    /\ pc = "count"

\* ------------------------------------------------------------------- C6
\* C6: for every limit of the range, the generation loop exits with
\* current > limit, the print loop finishes and main returns 0; no state
\* in which the program has failed (undefined behaviour, another exit
\* code) is ever reached.
C6_Termination ==
    /\ <>(pc = "done" /\ returned = <<0>> /\ current > limit /\ i = count)
    /\ [](pc # "ub" /\ returned \in {<<>>, <<0>>})

C6_Witness ==
    /\ limit = FixedLimit
    /\ returned = <<0>>
    /\ current > limit

\* ------------------------------------------------------------------- C7
\* C7: for every non-empty sequence and every desired count n >= 1, the
\* print loop reads the indices length-1, length-2, ... in this order, never
\* one outside the sequence, and when it has finished it has written exactly
\* min(n, length) numbers: the last min(n, length) elements in reverse order
\* (all the elements, without padding, when length < n).
C7_PrintCount ==
    LET len == Len(fibonacci)
        cnt == Smaller(desiredCount, len)
    IN  /\ pc # "ub"
        /\ Len(reads) <= cnt
        /\ \A k \in 1..Len(reads) : reads[k] = len - k /\ reads[k] \in 0..(len - 1)
        /\ pc = "done" =>
              /\ Len(reads) = cnt
              /\ ParseNumbers(output, <<>>, <<>>) = [k \in 1..cnt |-> fibonacci[len - k + 1]]

\* The print loop has finished on a sequence shorter than the desired count.
C7_Witness ==
    /\ pc = "done"
    /\ Len(fibonacci) >= 2
    /\ Len(fibonacci) < desiredCount
    /\ Len(reads) = Len(fibonacci)

\* ------------------------------------------------------------------- C8
\* C8: with limit = 1 the generation loop ends with the stored sequence
\* equal to <<1>>, and printing it with desired count 15 writes the single
\* number 1, without a separator, and the newline.
C8_SmallLimit ==
    (limit = 1 /\ desiredCount = FixedDesiredCount) =>
        /\ PastLoop => fibonacci = <<1>>
        /\ pc = "done" => output = <<"1", "\n">>

C8_Witness ==
    /\ limit = 1
    /\ pc = "done"
    /\ Len(output) = 2

\* ------------------------------------------------------------------- C9
\* C9: whatever the limit, the duplicate guard skips the append exactly
\* once, in the second iteration: the only iteration that starts with a
\* non-empty sequence whose last element equals current is the second, no
\* run leaves the loop before it, and every other iteration appends.
C9_GuardSkipsOnce ==
    /\ skipIters \subseteq {2}
    /\ iterations >= 2 => skipIters = {2}
    /\ PastLoop => iterations >= 2
    /\ Len(fibonacci) = iterations - Cardinality(skipIters)
    /\ (pc = "loop" /\ LoopGuard(current, limit)
            /\ fibonacci # <<>> /\ Back(fibonacci) = current) => iterations = 1

C9_Witness ==
    /\ limit = FixedLimit
    /\ PastLoop
    /\ iterations = 16
    /\ skipIters = {2}

\* ------------------------------------------------------------------ C10
\* C10: in the run with limit = 1000, previous, current and next are never
\* negative and never above 2^31 - 1, no addition previous + current the
\* loop is about to do overflows, and no overflow has happened.
C10_NoOverflow ==
    limit = FixedLimit =>
        /\ pc # "ub"
        /\ 0 <= previous /\ previous <= INT_MAX
        /\ 0 <= current /\ current <= INT_MAX
        /\ 0 <= next /\ next <= INT_MAX
        /\ (pc = "loop" /\ LoopGuard(current, limit)) => ~Overflows(previous, current)

\* The last addition of the run, 610 + 987.
C10_Witness ==
    /\ limit = FixedLimit
    /\ pc = "count"
    /\ previous = 987
    /\ next = 1597

====
